---------------------------- MODULE Spec2Model ----------------------------
(***************************************************************************)
(* Verification model of the configuration glue of the storj satellite /   *)
(* gateway:                                                                *)
(*   - pkg/miniogw/config.go  : Config.GetMetainfo, GetRedundancyScheme,   *)
(*                              GetEncryptionScheme, NewGateway            *)
(*   - pkg/overlay/config.go  : Config.Run, LookupConfig.ParseIDs          *)
(*   - DBDest (metric destination, Go source appended to                   *)
(*     NotificationArea.vue)  : NewDBDest, DBDest.Metric                   *)
(* Each subsystem has its own specification (SpecGateway, SpecOverlay,     *)
(* SpecParse, SpecDB); the variables of the other subsystems stay idle.    *)
(***************************************************************************)
EXTENDS Integers, Sequences, FiniteSets, TLC

VARIABLES
    gwCfg,      \* miniogw.Config the gateway operation is applied to
    gwOp,       \* which miniogw operation has run ("none" before)
    gwRes,      \* what that operation returned
    ovCfg,      \* overlay.Config (DatabaseURL)
    ovEnv,      \* context and collaborators overlay Config.Run is given
    ovRes,      \* what overlay Config.Run did and returned (Nil before)
    lcCfg,      \* overlay.LookupConfig
    lcRes,      \* what LookupConfig.ParseIDs returned (Nil before)
    pc,         \* DBDest: position of each goroutine inside Metric
    args,       \* DBDest: arguments of each goroutine's current Metric call
    mtx,        \* DBDest.mtx: the goroutine holding it, or Free
    dbconn,     \* DBDest.db: Nil or the connection
    table,      \* the metrics table: a set of rows
    opens,      \* number of successful sql.Open calls
    failedOpens,\* number of failed sql.Open calls
    latest,     \* per (metric, instance): val and ts of the last call
                \* whose Exec succeeded
    calls,      \* number of Metric calls made so far
    execs       \* number of Exec calls that succeeded

gwVars == <<gwCfg, gwOp, gwRes>>
ovVars == <<ovCfg, ovEnv, ovRes>>
lcVars == <<lcCfg, lcRes>>
dbVars == <<pc, args, mtx, dbconn, table, opens, failedOpens, latest, calls, execs>>
vars == <<gwVars, ovVars, lcVars, dbVars>>

\* A nil object (pointer, interface, connection) and a nil error.
Nil == [nil |-> TRUE]
NoErr == "nil"

(***************************************************************************)
(* Go integer arithmetic                                                   *)
(***************************************************************************)
Abs(x) == IF x < 0 THEN -x ELSE x

\* Go's % : truncated remainder, sign of the dividend; b = 0 panics and is
\* handled by the caller before GoRem is applied.
GoRem(a, b) ==
    LET r == Abs(a) % Abs(b)
    IN  IF a < 0 THEN -r ELSE r

\* int16(x): keep the low 16 bits, two's complement.
ToInt16(x) == ((x + 32768) % 65536) - 32768

\* int32(x): every integer TLC represents is within the int32 range, where
\* the conversion keeps the value.
ToInt32(x) == x

\* storj.Cipher(x): conversion of the configured int to the cipher enum, a
\* byte.
Cipher(x) == x % 256

(***************************************************************************)
(* miniogw: configuration values the operations are applied to             *)
(***************************************************************************)
\* RS.MinThreshold, RepairThreshold, SuccessThreshold, MaxThreshold: the
\* defaults 29, 35, 80, 95, zero, a negative count, a larger count, and a
\* count above the int16 range.
ThresholdVals == {-1, 0, 29, 35, 80, 95, 300, 32768}

\* RS.ErasureShareSize: the default 1024, zero, and a size 1024 does not
\* divide.
ShareSizeVals == {0, 1000, 1024}

\* Enc.BlockSize: the default 1024, zero, a negative size, and a size that
\* does not divide 1024 * 29.
BlockSizeVals == {-1024, 0, 1000, 1024}

\* Enc.DataType: 1 = AES-GCM, 2 = SecretBox.
DataTypeVals == {1, 2}

RSConfigs ==
    [ErasureShareSize : ShareSizeVals,
     MinThreshold     : ThresholdVals,
     RepairThreshold  : ThresholdVals,
     SuccessThreshold : ThresholdVals,
     MaxThreshold     : ThresholdVals]

EncryptionConfigs ==
    [BlockSize : BlockSizeVals, DataType : DataTypeVals, PathType : {1}]

Configs == [RS : RSConfigs, Enc : EncryptionConfigs]

\* The default configuration of the struct tags.
DefaultRS ==
    [ErasureShareSize |-> 1024, MinThreshold |-> 29, RepairThreshold |-> 35,
     SuccessThreshold |-> 80, MaxThreshold |-> 95]

\* Outcomes of the constructors whose result the configuration values
\* modelled here do not decide: overlay.NewOverlayClient,
\* pdbclient.NewClient, streams.NewStreamStore.
ExtOutcomes == [overlayOK : BOOLEAN, pdbOK : BOOLEAN, streamsOK : BOOLEAN]

(***************************************************************************)
(* miniogw: constructors GetMetainfo calls                                 *)
(***************************************************************************)
\* infectious.NewFEC(k, n): 0 < k <= n.
NewFECOK(k, n) == 0 < k /\ k <= n

\* eestream.NewRedundancyStrategy(eestream.NewRSScheme(fc, shareSize), m, o):
\* share size positive, k <= m <= o <= n.
NewRedundancyStrategyOK(k, n, shareSize, m, o) ==
    shareSize > 0 /\ k <= m /\ m <= o /\ o <= n

\* The objects GetMetainfo has constructed when it leaves.
BeforeFEC == {"oc", "pdb", "ec"}
BeforeCheck == BeforeFEC \cup {"fc", "rs", "segments"}

GMReturn(status, err, created) ==
    [status |-> status, db |-> Nil, ss |-> Nil, err |-> err,
     created |-> created]

ConfigErr == "EncryptionBlockSize must be a multiple of ErasureShareSize * RS MinThreshold"

\* The check with the operands grouped as ErasureShareSize * (MinThreshold %
\* BlockSize).
BlockSizeMismatchGrouped(c) ==
    c.RS.ErasureShareSize * GoRem(c.RS.MinThreshold, c.Enc.BlockSize) # 0

\* c.RS.ErasureShareSize*c.RS.MinThreshold%c.Enc.BlockSize != 0, for a
\* non-zero block size. The product of the configured values stays far
\* below the width of Go's int.
BlockSizeMismatch(c) ==
    GoRem(c.RS.ErasureShareSize * c.RS.MinThreshold, c.Enc.BlockSize) # 0

\* Config.GetMetainfo: status "ok" (db, ss, nil), "err" (nil, nil, err) or
\* "panic" (the integer division by zero of the block-size check).
GetMetainfo(c, ext) ==
    IF ~ext.overlayOK THEN GMReturn("err", "overlay client", {})
    ELSE IF ~ext.pdbOK THEN GMReturn("err", "pointerdb client", {"oc"})
    ELSE IF ~NewFECOK(c.RS.MinThreshold, c.RS.MaxThreshold)
    THEN GMReturn("err", "fec", BeforeFEC)
    ELSE IF ~NewRedundancyStrategyOK(c.RS.MinThreshold, c.RS.MaxThreshold,
                c.RS.ErasureShareSize, c.RS.RepairThreshold,
                c.RS.SuccessThreshold)
    THEN GMReturn("err", "redundancy strategy", BeforeFEC \cup {"fc"})
    ELSE IF c.Enc.BlockSize = 0
    THEN GMReturn("panic", "integer divide by zero", BeforeCheck)
    ELSE IF BlockSizeMismatch(c) THEN GMReturn("err", ConfigErr, BeforeCheck)
    ELSE IF ~ext.streamsOK
    THEN GMReturn("err", "stream store", BeforeCheck \cup {"key"})
    ELSE [status |-> "ok",
          db |-> [buckets |-> "buckets", streams |-> "streams",
                  segments |-> "segments", pdb |-> "pdb"],
          ss |-> [blockSize |-> c.Enc.BlockSize,
                  cipher |-> Cipher(c.Enc.DataType)],
          err |-> NoErr,
          created |-> BeforeCheck \cup {"key", "streams", "buckets", "metainfo"}]

\* GetRedundancyScheme with TotalShares taken from SuccessThreshold.
GetRedundancySchemeTotalFromOptimal(c) ==
    [Algorithm      |-> "ReedSolomon",
     RequiredShares |-> ToInt16(c.RS.MinThreshold),
     RepairShares   |-> ToInt16(c.RS.RepairThreshold),
     OptimalShares  |-> ToInt16(c.RS.SuccessThreshold),
     TotalShares    |-> ToInt16(c.RS.SuccessThreshold)]

\* Config.GetRedundancyScheme
GetRedundancyScheme(c) ==
    [Algorithm      |-> "ReedSolomon",
     RequiredShares |-> ToInt16(c.RS.MinThreshold),
     RepairShares   |-> ToInt16(c.RS.RepairThreshold),
     OptimalShares  |-> ToInt16(c.RS.SuccessThreshold),
     TotalShares    |-> ToInt16(c.RS.MaxThreshold)]

\* Config.GetEncryptionScheme
GetEncryptionScheme(c) ==
    [Cipher |-> Cipher(c.Enc.DataType), BlockSize |-> ToInt32(c.Enc.BlockSize)]

\* Config.NewGateway
NewGateway(c, ext) ==
    LET r == GetMetainfo(c, ext)
    IN  IF r.status # "ok"
        THEN [status |-> r.status, gw |-> Nil, err |-> r.err,
              created |-> r.created]
        ELSE [status |-> "ok",
              gw |-> [metainfo |-> r.db, streams |-> r.ss,
                      pathCipher |-> Cipher(c.Enc.PathType),
                      encryption |-> GetEncryptionScheme(c),
                      redundancy |-> GetRedundancyScheme(c)],
              err |-> NoErr,
              created |-> r.created \cup {"gateway"}]

(***************************************************************************)
(* Strings: sequences of one-character strings                             *)
(***************************************************************************)
\* strings.Index(s, sep) counted from 1; 0 when sep does not occur.
Index(s, sep) ==
    LET hits == {i \in 1..(Len(s) - Len(sep) + 1) :
                    SubSeq(s, i, i + Len(sep) - 1) = sep}
    IN  IF hits = {} THEN 0
        ELSE CHOOSE i \in hits : \A j \in hits : i <= j

\* strings.Split(s, sep): the substrings between the occurrences of sep,
\* found left to right; an empty sep splits after each character.
RECURSIVE Split(_, _)
Split(s, sep) ==
    IF sep = <<>> THEN [i \in 1..Len(s) |-> <<s[i]>>]
    ELSE LET i == Index(s, sep)
         IN  IF i = 0 THEN <<s>>
             ELSE <<SubSeq(s, 1, i - 1)>>
                      \o Split(SubSeq(s, i + Len(sep), Len(s)), sep)

(***************************************************************************)
(* overlay: Config.Run                                                     *)
(***************************************************************************)
SchemeSep == <<":", "/", "/">>
Bolt == <<"b", "o", "l", "t">>
Redis == <<"r", "e", "d", "i", "s">>

\* utils.SplitDBURL: driver and source on either side of the first "://".
SplitDBURL(url) ==
    LET i == Index(url, SchemeSep)
    IN  IF i = 0
        THEN [driver |-> <<>>, source |-> <<>>, err |-> "Could not parse DB URL"]
        ELSE [driver |-> SubSeq(url, 1, i - 1),
              source |-> SubSeq(url, i + Len(SchemeSep), Len(url)),
              err |-> NoErr]

SchemeErr == "database scheme not supported"

NoStore == [engine |-> "none", location |-> <<>>]

\* The switch with a default case that opens a bolt store.
OpenStoreDefaultBolt(driver, source, url, env) ==
    IF driver = Redis
    THEN IF env.redisOK
         THEN [err |-> NoErr, db |-> [engine |-> "redis", location |-> url],
               steps |-> <<[op |-> "redis.NewClientFrom", arg |-> url]>>]
         ELSE [err |-> "redis", db |-> NoStore, steps |-> <<>>]
    ELSE IF env.boltOK
         THEN [err |-> NoErr, db |-> [engine |-> "bolt", location |-> source],
               steps |-> <<[op |-> "boltdb.New", arg |-> source]>>]
         ELSE [err |-> "boltdb", db |-> NoStore, steps |-> <<>>]

\* The switch on the driver: the store it opens, or the error it returns.
OpenStore(driver, source, url, env) ==
    IF driver = Bolt
    THEN IF env.boltOK
         THEN [err |-> NoErr, db |-> [engine |-> "bolt", location |-> source],
               steps |-> <<[op |-> "boltdb.New", arg |-> source]>>]
         ELSE [err |-> "boltdb", db |-> NoStore, steps |-> <<>>]
    ELSE IF driver = Redis
    THEN IF env.redisOK
         THEN [err |-> NoErr, db |-> [engine |-> "redis", location |-> url],
               steps |-> <<[op |-> "redis.NewClientFrom", arg |-> url]>>]
         ELSE [err |-> "redis", db |-> NoStore, steps |-> <<>>]
    ELSE [err |-> SchemeErr, db |-> NoStore, steps |-> <<>>]

\* The steps after the switch, with the redis engine's server left
\* unregistered.
AfterOpenByEngine(db) ==
    LET cache == [db |-> db, kad |-> "kad", statdb |-> "statdb"]
        srv   == [cache |-> cache, kad |-> "kad"]
    IN  <<[op |-> "NewOverlayCache", arg |-> cache]>>
        \o <<[op |-> "NewServer", arg |-> srv]>>
        \o (IF db.engine = "redis" THEN <<>>
            ELSE <<[op |-> "RegisterOverlayServer", arg |-> srv]>>)
        \o <<[op |-> "WithValue ctxKeyOverlay", arg |-> cache],
             [op |-> "WithValue ctxKeyOverlayServer", arg |-> srv],
             [op |-> "server.Run",
              arg |-> [ctxKeyOverlay |-> cache, ctxKeyOverlayServer |-> srv]]>>

\* The steps after the switch: cache, server, registration, context values,
\* server.Run.
AfterOpen(db) ==
    LET cache == [db |-> db, kad |-> "kad", statdb |-> "statdb"]
        srv   == [cache |-> cache, kad |-> "kad"]
    IN  <<[op |-> "NewOverlayCache", arg |-> cache],
          [op |-> "NewServer", arg |-> srv],
          [op |-> "RegisterOverlayServer", arg |-> srv],
          [op |-> "WithValue ctxKeyOverlay", arg |-> cache],
          [op |-> "WithValue ctxKeyOverlayServer", arg |-> srv],
          [op |-> "server.Run",
              arg |-> [ctxKeyOverlay |-> cache, ctxKeyOverlayServer |-> srv]]>>

RunReturn(err, driver, db, steps) ==
    [err |-> err, driver |-> driver, db |-> db, steps |-> steps]

\* Config.Run: the error it returns and the steps it performed on stores,
\* cache, server and context, in order.
Run(c, env) ==
    IF ~env.kad
    THEN RunReturn("programmer error: kademlia responsibility unstarted",
                   <<>>, NoStore, <<>>)
    ELSE IF ~env.masterdb
    THEN RunReturn("unable to get master db instance", <<>>, NoStore, <<>>)
    ELSE LET u == SplitDBURL(c.DatabaseURL)
         IN  IF u.err # NoErr
             THEN RunReturn(u.err, <<>>, NoStore, <<>>)
             ELSE LET o == OpenStore(u.driver, u.source, c.DatabaseURL, env)
                  IN  IF o.err # NoErr
                      THEN RunReturn(o.err, u.driver, NoStore, o.steps)
                      ELSE RunReturn(env.serverRun, u.driver, o.db,
                                     o.steps \o AfterOpen(o.db))

\* Connection strings: the two supported schemes, unsupported ones
\* (another engine, a different case, an empty scheme, a longer name), and
\* strings SplitDBURL cannot split.
DatabaseURLs ==
    { <<"b","o","l","t",":","/","/","o">>,
      <<"r","e","d","i","s",":","/","/","r">>,
      <<"r","e","d","i","s",":","/","/","r",":","/","/","x">>,
      <<"p","g",":","/","/","p">>,
      <<"B","o","l","t",":","/","/","o">>,
      <<"b","o","l","t","d","b",":","/","/","o">>,
      <<":","/","/","o">>,
      <<"b","o","l","t",":","/","o">>,
      <<"r","e","d","i","s">>,
      <<>> }

OverlayEnvs ==
    [kad : BOOLEAN, masterdb : BOOLEAN, boltOK : BOOLEAN, redisOK : BOOLEAN,
     serverRun : {NoErr, "server stopped"}]

(***************************************************************************)
(* overlay: LookupConfig.ParseIDs                                          *)
(***************************************************************************)
\* Characters of the configured strings: two characters of the node-ID
\* alphabet, one outside it, and the default delimiter.
Chars == {"a", "b", "0", ","}
IDChars == {"a", "b"}

\* Length of an encoded node ID.
IDStrLen == 2

\* Longest NodeIDsString.
MaxLen == 5

\* storj.NodeIDFromString: decodes a string of IDStrLen characters of the
\* node-ID alphabet into the ID's digits; any other string is an error.
NodeIDFromString(s) ==
    IF Len(s) = IDStrLen /\ \A i \in 1..Len(s) : s[i] \in IDChars
    THEN [id |-> [i \in 1..Len(s) |-> IF s[i] = "a" THEN 1 ELSE 2],
          err |-> NoErr]
    ELSE [id |-> <<>>, err |-> "node ID error"]

\* utils.CombineErrors: the nil error for no errors, else the group of all
\* of them.
CombineErrors(idErrs) == IF idErrs = <<>> THEN Nil ELSE [errs |-> idErrs]

\* The loop with a failing token ending it.
RECURSIVE ParseLoopBreak(_, _, _, _)
ParseLoopBreak(idStrs, i, ids, idErrs) ==
    IF i > Len(idStrs) THEN [ids |-> ids, idErrs |-> idErrs]
    ELSE LET r == NodeIDFromString(idStrs[i])
         IN  IF r.err # NoErr
             THEN [ids |-> ids,
                   idErrs |-> Append(idErrs, [token |-> i, err |-> r.err])]
             ELSE ParseLoopBreak(idStrs, i + 1, Append(ids, r.id), idErrs)

\* The loop over the tokens: a failure is collected and the loop goes on,
\* an ID is appended.
RECURSIVE ParseLoop(_, _, _, _)
ParseLoop(idStrs, i, ids, idErrs) ==
    IF i > Len(idStrs) THEN [ids |-> ids, idErrs |-> idErrs]
    ELSE LET r == NodeIDFromString(idStrs[i])
         IN  IF r.err # NoErr
             THEN ParseLoop(idStrs, i + 1, ids,
                            Append(idErrs, [token |-> i, err |-> r.err]))
             ELSE ParseLoop(idStrs, i + 1, Append(ids, r.id), idErrs)

\* LookupConfig.ParseIDs. idsNil: the returned list is the nil slice.
ParseIDs(c) ==
    LET idStrs == Split(c.NodeIDsString, c.Delimiter)
        l      == ParseLoop(idStrs, 1, <<>>, <<>>)
        err    == CombineErrors(l.idErrs)
    IN  IF err # Nil
        THEN [ids |-> <<>>, idsNil |-> TRUE, err |-> err]
        ELSE [ids |-> l.ids, idsNil |-> (Len(l.ids) = 0), err |-> Nil]

RECURSIVE StringsUpTo(_)
StringsUpTo(n) ==
    IF n = 0 THEN {<<>>}
    ELSE LET shorter == StringsUpTo(n - 1)
         IN  shorter \cup {Append(s, ch) : s \in shorter, ch \in Chars}

LookupConfigs ==
    [NodeIDsString : StringsUpTo(MaxLen),
     Delimiter : {<<",">>, <<>>, <<",", ",">>}]

(***************************************************************************)
(* DBDest: the metric destination                                          *)
(***************************************************************************)
\* Goroutines calling Metric on one DBDest, and Metric calls in all.
NumProcs == 2
MaxCalls == 3

Procs == 1..NumProcs

\* application and key: two of the pairs concatenate to the same metric.
AppKeys ==
    { [application |-> <<"a">>, key |-> <<"b", ".", "k">>],
      [application |-> <<"a", ".", "b">>, key |-> <<"k">>],
      [application |-> <<"a">>, key |-> <<"k">>] }
Instances == {"i1", "i2"}
\* val and ts.Unix() of a call.
Samples == { [val |-> 1, ts |-> 10], [val |-> 2, ts |-> 20] }

\* application+"."+string(key)
MetricName(application, key) == application \o <<".">> \o key

\* A plain INSERT of the row.
Insert(t, row) == t \cup {row}

\* sqlupsert: INSERT ... ON CONFLICT(metric, instance) DO UPDATE SET
\* val=excluded.val, timestamp=excluded.timestamp
Upsert(t, row) ==
    LET conflict == {r \in t : r.metric = row.metric /\ r.instance = row.instance}
    IN  IF conflict = {} THEN t \cup {row}
        ELSE (t \ conflict)
               \cup {[r EXCEPT !.val = row.val, !.timestamp = row.timestamp] :
                        r \in conflict}

\* The test without the nil check: every call opens a connection.
AlwaysOpen(conn) == TRUE

\* if db.db == nil
NeedsOpen(conn) == conn = Nil

(***************************************************************************)
(* Idle values of each subsystem's variables                               *)
(***************************************************************************)
Free == 0

GwIdle == gwCfg = Nil /\ gwOp = "none" /\ gwRes = Nil
OvIdle == ovCfg = Nil /\ ovEnv = Nil /\ ovRes = Nil
LcIdle == lcCfg = Nil /\ lcRes = Nil
DbIdle ==
    /\ pc = <<>> /\ args = <<>> /\ mtx = Free /\ dbconn = Nil
    /\ table = {} /\ opens = 0 /\ failedOpens = 0 /\ latest = <<>> /\ calls = 0 /\ execs = 0

(***************************************************************************)
(* miniogw: the state machine. One configuration, one operation on it.     *)
(***************************************************************************)
InitGateway ==
    /\ gwCfg \in Configs
    /\ gwOp = "none"
    /\ gwRes = Nil
    /\ OvIdle /\ LcIdle /\ DbIdle

CallGetMetainfo ==
    /\ gwOp = "none"
    /\ \E ext \in ExtOutcomes :
          gwRes' = GetMetainfo(gwCfg, ext)
    /\ gwOp' = "GetMetainfo"
    /\ UNCHANGED <<gwCfg, ovVars, lcVars, dbVars>>

CallNewGateway ==
    /\ gwOp = "none"
    /\ \E ext \in ExtOutcomes :
          gwRes' = NewGateway(gwCfg, ext)
    /\ gwOp' = "NewGateway"
    /\ UNCHANGED <<gwCfg, ovVars, lcVars, dbVars>>

CallGetRedundancyScheme ==
    /\ gwOp = "none"
    /\ gwRes' = GetRedundancyScheme(gwCfg)
    /\ gwOp' = "GetRedundancyScheme"
    /\ UNCHANGED <<gwCfg, ovVars, lcVars, dbVars>>

CallGetEncryptionScheme ==
    /\ gwOp = "none"
    /\ gwRes' = GetEncryptionScheme(gwCfg)
    /\ gwOp' = "GetEncryptionScheme"
    /\ UNCHANGED <<gwCfg, ovVars, lcVars, dbVars>>

NextGateway ==
    \/ CallGetMetainfo
    \/ CallNewGateway
    \/ CallGetRedundancyScheme
    \/ CallGetEncryptionScheme

SpecGateway == InitGateway /\ [][NextGateway]_vars

(***************************************************************************)
(* miniogw: properties                                                     *)
(***************************************************************************)
\* x is not an integer multiple of b (for b = 0: x is not 0).
NotMultiple(x, b) == IF b = 0 THEN x # 0 ELSE x % Abs(b) # 0

\* GetMetainfo has run and built the overlay client, the pointerdb client,
\* the FEC and the redundancy strategy without error.
PrerequisitesBuilt ==
    /\ gwOp = "GetMetainfo"
    /\ {"oc", "pdb", "fc", "rs"} \subseteq gwRes.created

\* C1: once the clients, the FEC and the redundancy strategy are built,
\* GetMetainfo fails with the configuration error if and only if
\* ErasureShareSize * MinThreshold is not a multiple of BlockSize, and then
\* returns (nil, nil, err) with no stream store, bucket store or metainfo
\* created.
C1_ConfigErrorIffMismatch ==
    PrerequisitesBuilt =>
        /\ (gwRes.status = "err" /\ gwRes.err = ConfigErr)
              <=> NotMultiple(gwCfg.RS.ErasureShareSize * gwCfg.RS.MinThreshold,
                              gwCfg.Enc.BlockSize)
        /\ gwRes.err = ConfigErr =>
              /\ gwRes.db = Nil /\ gwRes.ss = Nil
              /\ gwRes.created \cap {"streams", "buckets", "metainfo"} = {}

\* The values of the example: ErasureShareSize = 1024, RequiredShares = 29,
\* BlockSize = 1024, with the validation reached.
ExampleValuesChecked ==
    /\ PrerequisitesBuilt
    /\ gwCfg.RS.ErasureShareSize = 1024
    /\ gwCfg.RS.MinThreshold = 29
    /\ gwCfg.Enc.BlockSize = 1024

\* C2 as stated: with ErasureShareSize = 1024, RequiredShares = 29 and
\* BlockSize = 1024 the validation fails with the configuration error.
C2_DefaultsRejected ==
    ExampleValuesChecked => (gwRes.status = "err" /\ gwRes.err = ConfigErr)

\* C2 amended: with ErasureShareSize = 1024, RequiredShares = 29 and
\* BlockSize = 1024 the validation passes (29696 = 29 * 1024): GetMetainfo
\* does not return the configuration error and goes on to build the key
\* and the stream store.
C2_DefaultsAccepted ==
    ExampleValuesChecked =>
        /\ gwRes.err # ConfigErr
        /\ gwRes.status \in {"ok", "err"}
        /\ "key" \in gwRes.created
        /\ gwRes.status = "err" => gwRes.err = "stream store"

C2_Witness ==
    /\ ExampleValuesChecked
    /\ gwCfg.RS = DefaultRS
    /\ gwRes.status = "ok"
    /\ "metainfo" \in gwRes.created

\* C7 as stated: for every RSConfig GetRedundancyScheme returns Algorithm =
\* ReedSolomon and the four share counts numerically equal to the four
\* configured thresholds, and GetEncryptionScheme returns BlockSize and
\* Cipher equal to the configured BlockSize and DataType.
C7_SchemesEqualConfig ==
    /\ gwOp = "GetRedundancyScheme" =>
          /\ gwRes.Algorithm = "ReedSolomon"
          /\ gwRes.RequiredShares = gwCfg.RS.MinThreshold
          /\ gwRes.RepairShares = gwCfg.RS.RepairThreshold
          /\ gwRes.OptimalShares = gwCfg.RS.SuccessThreshold
          /\ gwRes.TotalShares = gwCfg.RS.MaxThreshold
    /\ gwOp = "GetEncryptionScheme" =>
          /\ gwRes.BlockSize = gwCfg.Enc.BlockSize
          /\ gwRes.Cipher = gwCfg.Enc.DataType

Int16Range == -32768..32767

\* share is what int16 makes of threshold: the threshold itself when it is
\* within the int16 range, and else the int16 congruent to it modulo 2^16.
Int16Of(share, threshold) ==
    /\ share \in Int16Range
    /\ threshold \in Int16Range => share = threshold
    /\ (share - threshold) % 65536 = 0

\* C7 amended: GetRedundancyScheme returns Algorithm = ReedSolomon and
\* each share count equal to its configured threshold whenever the
\* threshold is within the int16 range (a threshold outside it is returned
\* reduced modulo 2^16); GetEncryptionScheme returns BlockSize and Cipher
\* equal to the configured BlockSize and DataType.
C7_SchemesEqualConfigInRange ==
    /\ gwOp = "GetRedundancyScheme" =>
          /\ gwRes.Algorithm = "ReedSolomon"
          /\ Int16Of(gwRes.RequiredShares, gwCfg.RS.MinThreshold)
          /\ Int16Of(gwRes.RepairShares, gwCfg.RS.RepairThreshold)
          /\ Int16Of(gwRes.OptimalShares, gwCfg.RS.SuccessThreshold)
          /\ Int16Of(gwRes.TotalShares, gwCfg.RS.MaxThreshold)
    /\ gwOp = "GetEncryptionScheme" =>
          /\ gwRes.BlockSize = gwCfg.Enc.BlockSize
          /\ gwRes.Cipher = gwCfg.Enc.DataType

C7_Witness ==
    /\ gwOp = "GetRedundancyScheme"
    /\ gwCfg.RS = DefaultRS
    /\ gwRes = [Algorithm |-> "ReedSolomon", RequiredShares |-> 29,
                RepairShares |-> 35, OptimalShares |-> 80, TotalShares |-> 95]

\* C10: for every integer configuration GetMetainfo returns either a
\* complete (metainfo, streams, nil) or (nil, nil, error); it never ends in
\* an abnormal abort.
C10_GetMetainfoReturns ==
    gwOp = "GetMetainfo" =>
        \/ gwRes.status = "ok" /\ gwRes.db # Nil /\ gwRes.ss # Nil
               /\ gwRes.err = NoErr
        \/ gwRes.status = "err" /\ gwRes.db = Nil /\ gwRes.ss = Nil
               /\ gwRes.err # NoErr

(***************************************************************************)
(* overlay: the state machines                                             *)
(***************************************************************************)
InitOverlay ==
    /\ ovCfg \in [DatabaseURL : DatabaseURLs]
    /\ ovEnv \in OverlayEnvs
    /\ ovRes = Nil
    /\ GwIdle /\ LcIdle /\ DbIdle

CallRun ==
    /\ ovRes = Nil
    /\ ovRes' = Run(ovCfg, ovEnv)
    /\ UNCHANGED <<ovCfg, ovEnv, gwVars, lcVars, dbVars>>

NextOverlay == CallRun

SpecOverlay == InitOverlay /\ [][NextOverlay]_vars

InitParse ==
    /\ lcCfg \in LookupConfigs
    /\ lcRes = Nil
    /\ GwIdle /\ OvIdle /\ DbIdle

CallParseIDs ==
    /\ lcRes = Nil
    /\ lcRes' = ParseIDs(lcCfg)
    /\ UNCHANGED <<lcCfg, gwVars, ovVars, dbVars>>

NextParse == CallParseIDs

SpecParse == InitParse /\ [][NextParse]_vars

(***************************************************************************)
(* DBDest: the state machine. NewDBDest has returned; goroutines call      *)
(* Metric concurrently.                                                    *)
(***************************************************************************)
NoArgs == [metric |-> <<>>, instance |-> "", val |-> 0, ts |-> 0]

InitDB ==
    /\ pc = [p \in Procs |-> "idle"]
    /\ args = [p \in Procs |-> NoArgs]
    /\ mtx = Free
    /\ dbconn = Nil
    /\ table = {}
    /\ opens = 0
    /\ failedOpens = 0
    /\ latest = <<>>
    /\ calls = 0
    /\ execs = 0
    /\ GwIdle /\ OvIdle /\ LcIdle

\* The call of p is the last one to have stored a value for its pair.
Stored(p) ==
    LET pair == <<args[p].metric, args[p].instance>>
    IN  [q \in DOMAIN latest \cup {pair} |->
            IF q = pair THEN [val |-> args[p].val, ts |-> args[p].ts]
            ELSE latest[q]]

\* Metric is called.
Invoke(p) ==
    /\ pc[p] = "idle"
    /\ calls < MaxCalls
    /\ \E ak \in AppKeys, instance \in Instances, sample \in Samples :
          args' = [args EXCEPT ![p] =
                      [metric |-> MetricName(ak.application, ak.key),
                       instance |-> instance, val |-> sample.val,
                       ts |-> sample.ts]]
    /\ calls' = calls + 1
    /\ pc' = [pc EXCEPT ![p] = "lock"]
    /\ UNCHANGED <<mtx, dbconn, table, opens, failedOpens, latest, execs>>
    /\ UNCHANGED <<gwVars, ovVars, lcVars>>

\* db.mtx.Lock()
Lock(p) ==
    /\ pc[p] = "lock"
    /\ mtx = Free
    /\ mtx' = p
    /\ pc' = [pc EXCEPT ![p] = "check"]
    /\ UNCHANGED <<args, dbconn, table, opens, failedOpens, latest, calls, execs>>
    /\ UNCHANGED <<gwVars, ovVars, lcVars>>

\* db.db == nil and sql.Open succeeds: db.db = conn
OpenOK(p) ==
    /\ pc[p] = "check"
    /\ NeedsOpen(dbconn)
    /\ opens' = opens + 1
    /\ dbconn' = [conn |-> opens + 1]
    /\ pc' = [pc EXCEPT ![p] = "unlock"]
    /\ UNCHANGED <<args, mtx, table, failedOpens, latest, calls, execs>>
    /\ UNCHANGED <<gwVars, ovVars, lcVars>>

\* db.db == nil and sql.Open fails: unlock and return the error
OpenFail(p) ==
    /\ pc[p] = "check"
    /\ NeedsOpen(dbconn)
    /\ failedOpens' = failedOpens + 1
    /\ mtx' = Free
    /\ pc' = [pc EXCEPT ![p] = "idle"]
    /\ UNCHANGED <<args, dbconn, table, opens, latest, calls, execs>>
    /\ UNCHANGED <<gwVars, ovVars, lcVars>>

\* db.db != nil: nothing to open
SkipOpen(p) ==
    /\ pc[p] = "check"
    /\ ~NeedsOpen(dbconn)
    /\ pc' = [pc EXCEPT ![p] = "unlock"]
    /\ UNCHANGED <<args, mtx, dbconn, table, opens, failedOpens, latest, calls, execs>>
    /\ UNCHANGED <<gwVars, ovVars, lcVars>>

\* db.mtx.Unlock()
Unlock(p) ==
    /\ pc[p] = "unlock"
    /\ mtx' = Free
    /\ pc' = [pc EXCEPT ![p] = "exec"]
    /\ UNCHANGED <<args, dbconn, table, opens, failedOpens, latest, calls, execs>>
    /\ UNCHANGED <<gwVars, ovVars, lcVars>>

\* db.db.Exec(sqlupsert[db.driver], ...) succeeds, and Metric returns nil
ExecOK(p) ==
    /\ pc[p] = "exec"
    /\ dbconn # Nil
    /\ table' = Upsert(table, [metric |-> args[p].metric,
                               instance |-> args[p].instance,
                               val |-> args[p].val,
                               timestamp |-> args[p].ts])
    /\ latest' = Stored(p)
    /\ execs' = execs + 1
    /\ pc' = [pc EXCEPT ![p] = "idle"]
    /\ UNCHANGED <<args, mtx, dbconn, opens, failedOpens, calls>>
    /\ UNCHANGED <<gwVars, ovVars, lcVars>>

\* db.db.Exec fails and Metric returns the error; on a nil db.db the call
\* is a nil pointer dereference and the goroutine panics
ExecFail(p) ==
    /\ pc[p] = "exec"
    /\ pc' = [pc EXCEPT ![p] = IF dbconn = Nil THEN "panic" ELSE "idle"]
    /\ UNCHANGED <<args, mtx, dbconn, table, opens, failedOpens, latest, calls, execs>>
    /\ UNCHANGED <<gwVars, ovVars, lcVars>>

NextDB ==
    \E p \in Procs :
        \/ Invoke(p)
        \/ Lock(p)
        \/ OpenOK(p)
        \/ OpenFail(p)
        \/ SkipOpen(p)
        \/ Unlock(p)
        \/ ExecOK(p)
        \/ ExecFail(p)

SpecDB == InitDB /\ [][NextDB]_vars

(***************************************************************************)
(* overlay: properties                                                     *)
(***************************************************************************)
\* Run has returned for a DatabaseURL that splits into a driver that is
\* neither "bolt" nor "redis".
UnsupportedSchemeRun ==
    /\ ovRes # Nil
    /\ SplitDBURL(ovCfg.DatabaseURL).err = NoErr
    /\ SplitDBURL(ovCfg.DatabaseURL).driver \notin {Bolt, Redis}

\* C3: for a DatabaseURL whose scheme is neither "bolt" nor "redis", Run
\* (reaching the store selection: kademlia and the master db are in the
\* context) returns "database scheme not supported" for that scheme; on
\* that path it returns an error having opened no store and constructed no
\* cache, registered no server and not called server.Run.
C3_UnsupportedSchemeFailsAtStartup ==
    UnsupportedSchemeRun =>
        /\ ovRes.err # NoErr
        /\ ovRes.steps = <<>>
        /\ ovRes.db = NoStore
        /\ (ovEnv.kad /\ ovEnv.masterdb) =>
              /\ ovRes.err = SchemeErr
              /\ ovRes.driver = SplitDBURL(ovCfg.DatabaseURL).driver

C3_Witness ==
    /\ UnsupportedSchemeRun
    /\ ovEnv.kad /\ ovEnv.masterdb /\ ovEnv.boltOK /\ ovEnv.redisOK
    /\ ovRes.err = SchemeErr
    /\ ovRes.driver = <<"p", "g">>

\* The names of the steps Run performed from the k-th on.
StepNamesFrom(k) == [i \in 1..(Len(ovRes.steps) - k + 1) |-> ovRes.steps[i + k - 1].op]

\* C4: after the store has been opened, Run performs the same steps for
\* the bolt and the redis engine: cache from the store handle, server from
\* the cache, registration, both context values, server.Run; the engine
\* shows only in the step that opens the store, and the cache holds the
\* handle that step returned.
C4_SameStepsForBothEngines ==
    (ovRes # Nil /\ ovRes.db # NoStore) =>
        /\ ovRes.db.engine \in {"bolt", "redis"}
        /\ ovRes.steps[1].op =
              (IF ovRes.db.engine = "bolt" THEN "boltdb.New"
               ELSE "redis.NewClientFrom")
        /\ StepNamesFrom(2) =
              <<"NewOverlayCache", "NewServer", "RegisterOverlayServer",
                "WithValue ctxKeyOverlay", "WithValue ctxKeyOverlayServer",
                "server.Run">>
        /\ ovRes.steps[2].arg.db = ovRes.db
        /\ ovRes.steps[3].arg.cache = ovRes.steps[2].arg
        /\ ovRes.steps[4].arg = ovRes.steps[3].arg
        /\ ovRes.steps[5].arg = ovRes.steps[2].arg
        /\ ovRes.steps[6].arg = ovRes.steps[3].arg
        /\ ovRes.steps[7].arg.ctxKeyOverlay = ovRes.steps[2].arg
        /\ ovRes.steps[7].arg.ctxKeyOverlayServer = ovRes.steps[3].arg
        /\ ovRes.err = ovEnv.serverRun

C4_Witness ==
    /\ ovRes # Nil
    /\ ovRes.db # NoStore
    /\ ovRes.db.engine = "redis"
    /\ Len(ovRes.steps) = 7
    /\ ovRes.steps[7].op = "server.Run"

\* C8: ParseIDs is all-or-nothing and order-preserving. If every token of
\* NodeIDsString parses, it returns one ID per token in token order and a
\* nil error; if a token fails, it returns the nil list and an error that
\* holds the failure of every failing token.
C8_ParseIDsAllOrNothing ==
    lcRes # Nil =>
        LET toks == Split(lcCfg.NodeIDsString, lcCfg.Delimiter)
            bad  == {i \in 1..Len(toks) : NodeIDFromString(toks[i]).err # NoErr}
        IN  IF bad = {}
            THEN /\ lcRes.err = Nil
                 /\ Len(lcRes.ids) = Len(toks)
                 /\ \A i \in 1..Len(toks) :
                       lcRes.ids[i] = NodeIDFromString(toks[i]).id
            ELSE /\ lcRes.idsNil
                 /\ lcRes.ids = <<>>
                 /\ lcRes.err # Nil
                 /\ {lcRes.err.errs[j].token : j \in 1..Len(lcRes.err.errs)} = bad
                 /\ Len(lcRes.err.errs) = Cardinality(bad)

\* Two different IDs returned in token order.
C8_Witness ==
    /\ lcRes # Nil
    /\ lcCfg.NodeIDsString = <<"a", "b", ",", "b", "a">>
    /\ lcCfg.Delimiter = <<",">>
    /\ lcRes.ids = << <<1, 2>>, <<2, 1>> >>
    /\ lcRes.err = Nil

(***************************************************************************)
(* DBDest: properties                                                      *)
(***************************************************************************)
AllPairs ==
    {<<MetricName(ak.application, ak.key), i>> : ak \in AppKeys, i \in Instances}

RowsOf(pair) == {r \in table : r.metric = pair[1] /\ r.instance = pair[2]}

\* C6: after any interleaving of Metric calls the metrics table holds at
\* most one row per (application+"."+key, instance) pair: none while no
\* call for the pair has succeeded, and otherwise one row whose val and
\* timestamp are those of the most recent call for the pair (calls that
\* overlap in time are ordered by their Exec).
C6_LatestValuePerMetric ==
    /\ \A r \in table : <<r.metric, r.instance>> \in AllPairs
    /\ \A pair \in AllPairs :
          IF pair \in DOMAIN latest
          THEN RowsOf(pair) = {[metric |-> pair[1], instance |-> pair[2],
                               val |-> latest[pair].val,
                               timestamp |-> latest[pair].ts]}
          ELSE RowsOf(pair) = {}

\* Two calls for one pair have stored a value (the second an update of
\* the first's row), one of them through the other spelling of the
\* metric, while a third call is about to execute.
C6_Witness ==
    /\ execs = 2
    /\ Cardinality(table) = 1
    /\ \E r \in table : r.metric = <<"a", ".", "b", ".", "k">> /\ r.val = 2
    /\ \E p \in Procs : pc[p] = "exec" /\ args[p].val = 1

\* C9: under any interleaving of Metric calls the connection is opened
\* successfully at most once and db.db, once set, stays that connection; a
\* failed open leaves db.db nil; the mutex is held only between Lock and
\* Unlock (it is free again when Metric returns, also after a failed
\* open); a call at Exec has a non-nil connection and does not hold the
\* mutex.
C9_SingleOpenAndMutexReleased ==
    /\ opens <= 1
    /\ dbconn = (IF opens = 0 THEN Nil ELSE [conn |-> 1])
    /\ mtx \in {Free} \cup {p \in Procs : pc[p] \in {"check", "unlock"}}
    /\ \A p \in Procs : pc[p] = "idle" => mtx # p
    /\ \A p \in Procs : pc[p] = "exec" => dbconn # Nil /\ mtx # p
    /\ \A p \in Procs : pc[p] # "panic"

\* An open failed, a later call opened the connection, and one call is at
\* Exec while another holds the mutex.
C9_Witness ==
    /\ failedOpens >= 1
    /\ opens = 1
    /\ dbconn = [conn |-> 1]
    /\ \E p, q \in Procs : pc[p] = "exec" /\ pc[q] = "check" /\ mtx = q

=============================================================================
